---- MODULE Spec2Model ----
(***************************************************************************)
(* Model of the emissions service: the GET /emissions cursor query handler *)
(* (routes/emissions.routes.js) and the streaming batch loader             *)
(* (scripts/seed-emissions.js), both working on one MongoDB collection.    *)
(*                                                                         *)
(* Strings are sequences of small integers (their characters); the value   *)
(* undefined of a missing query parameter is the sequence Undefined, which *)
(* no string equals.  Instants are integers (milliseconds), ObjectIds are  *)
(* integers compared as their bytes are.                                   *)
(***************************************************************************)
EXTENDS Integers, Sequences, FiniteSets, TLC

\* ------------------------------------------------------------------ bounds
\* documents the collection holds at most while a cursor chain is followed
MaxDocs == 3
\* documents the collection holds at most when a single request is served
MaxQueryDocs == 2
\* the largest limit a request asks for (the schema allows 1..1000)
MaxLimit == 2
\* the loader's batch size (env BATCH_SIZE, 5000 by default)
BATCH_SIZE == 2
\* rows of one input file at most
MaxRows == 3

\* ------------------------------------------------------- strings and values
Undefined == << -1 >>
EmptyStr == << >>
\* "not-a-date", "not-an-objectid": text that is neither a date nor an ObjectId
Garbage == << 99 >>

\* Number.NaN / an Invalid Date, and the failure of new ObjectId(...)
NaN == -1

\* if (v): a missing parameter and the empty string are both falsy
Truthy(s) == s # Undefined /\ s # EmptyStr

\* instants either side of a second, identities either side of a hex digit,
\* confidences in hundredths (0.75 is the schema's default floor)
TsValues == {999, 1000}
IdValues == 15 .. (14 + MaxDocs)
ConfMins == {50, 75}
Limits == 1 .. MaxLimit

\* Mutant of toISOString: the milliseconds are dropped from the string
toISOStringNoMillis(t) == << t \div 1000, 0, 0, 0 >>

\* Date.prototype.toISOString: the seconds digit and the three millisecond digits
toISOString(t) ==
  << t \div 1000, (t \div 100) % 10, (t \div 10) % 10, t % 10 >>

\* new Date(string): the instant an ISO string denotes, an Invalid Date otherwise
NewDate(s) ==
  IF s # Undefined /\ Len(s) = 4 /\ \A i \in 1 .. 4 : s[i] \in 0 .. 9
  THEN s[1] * 1000 + s[2] * 100 + s[3] * 10 + s[4]
  ELSE NaN

\* String(objectId): the hex digits of the identity
ToHexString(n) == << n \div 16, n % 16 >>

\* new ObjectId(string): the identity of a hex string; NaN stands for the throw
NewObjectId(s) ==
  IF s # Undefined /\ Len(s) = 2 /\ \A i \in 1 .. 2 : s[i] \in 0 .. 15
  THEN s[1] * 16 + s[2]
  ELSE NaN

\* --------------------------------------------------- the emissions collection
\* The sort .sort({ timestamp: -1, _id: -1 }): a sorts before b
Before(a, b) ==
  \/ a.timestamp > b.timestamp
  \/ a.timestamp = b.timestamp /\ a._id > b._id

RECURSIVE SortDesc(_)
SortDesc(S) ==
  IF S = {} THEN << >>
  ELSE LET first == CHOOSE d \in S : \A e \in S \ {d} : Before(d, e)
       IN << first >> \o SortDesc(S \ {first})

Take(s, n) == IF Len(s) <= n THEN s ELSE SubSeq(s, 1, n)

\* Mutant of Matches: the cursor predicate without its tie-break on _id
MatchesNoTieBreak(d, f) ==
  /\ d.siteId = f.siteId
  /\ d.equipmentId = f.equipmentId
  /\ d.confidence >= f.confidenceMin
  /\ f.hasGte => d.timestamp >= f.gte
  /\ f.hasLte => d.timestamp <= f.lte
  /\ f.hasOr => d.timestamp < f.ts

\* The filter object the handler builds, matched the way the store matches it
Matches(d, f) ==
  /\ d.siteId = f.siteId
  /\ d.equipmentId = f.equipmentId
  /\ d.confidence >= f.confidenceMin
  /\ f.hasGte => d.timestamp >= f.gte
  /\ f.hasLte => d.timestamp <= f.lte
  /\ f.hasOr =>
       \/ d.timestamp < f.ts
       \/ d.timestamp = f.ts /\ d._id < f.oid

\* The projection of a stored document: with includeDetections the items
\* carry the detections, without it they do not have the field
Project(d, includeDetections) ==
  IF includeDetections
  THEN [_id |-> d._id, siteId |-> d.siteId, equipmentId |-> d.equipmentId,
        timestamp |-> d.timestamp, confidence |-> d.confidence,
        detections |-> d.detections]
  ELSE [_id |-> d._id, siteId |-> d.siteId, equipmentId |-> d.equipmentId,
        timestamp |-> d.timestamp, confidence |-> d.confidence]

\* find(filter, {projection}).sort(...).limit(n).toArray()
Find(col, f, includeDetections, n) ==
  LET hits == SortDesc({d \in col : Matches(d, f)})
  IN [i \in 1 .. Len(Take(hits, n)) |-> Project(hits[i], includeDetections)]

\* ------------------------------------------------------ GET /emissions
NullCursor == [cursorTs |-> Undefined, cursorId |-> Undefined]

\* reply.send({ count, siteId, equipmentId, nextCursor, items }) on success;
\* reply.code(...).send({ error }) carries the message and nothing else
Reply(status, error, queried, q, nextCursor, items) ==
  [status |-> status, error |-> error, queried |-> queried,
   count |-> Len(items),
   siteId |-> IF status = 200 THEN q.siteId ELSE "",
   equipmentId |-> IF status = 200 THEN q.equipmentId ELSE "",
   nextCursor |-> nextCursor, items |-> items]

Reject(q, error) == Reply(400, error, FALSE, q, NullCursor, << >>)

\* Mutant of BuildFilter: the upper end of the window is left out
BuildFilterNoLte(q) ==
  [siteId |-> q.siteId, equipmentId |-> q.equipmentId,
   confidenceMin |-> q.confidenceMin,
   hasGte |-> Truthy(q.from), gte |-> NewDate(q.from),
   hasLte |-> FALSE, lte |-> NewDate(q.to),
   hasOr |-> Truthy(q.cursorTs) \/ Truthy(q.cursorId),
   ts |-> NewDate(q.cursorTs), oid |-> NewObjectId(q.cursorId)]

\* The filter of a request that passed validation
BuildFilter(q) ==
  [siteId |-> q.siteId, equipmentId |-> q.equipmentId,
   confidenceMin |-> q.confidenceMin,
   hasGte |-> Truthy(q.from), gte |-> NewDate(q.from),
   hasLte |-> Truthy(q.to), lte |-> NewDate(q.to),
   hasOr |-> Truthy(q.cursorTs) \/ Truthy(q.cursorId),
   ts |-> NewDate(q.cursorTs), oid |-> NewObjectId(q.cursorId)]

\* Mutant of Page: the cursor is taken from the lookahead row
PageCursorFromLookahead(q, docs) ==
  LET hasMore == Len(docs) > q.limit
      items == IF hasMore THEN SubSeq(docs, 1, q.limit) ELSE docs
      nextCursor ==
        IF hasMore /\ Len(items) > 0
        THEN [cursorTs |-> toISOString(docs[Len(docs)].timestamp),
              cursorId |-> ToHexString(docs[Len(docs)]._id)]
        ELSE NullCursor
  IN Reply(200, "", TRUE, q, nextCursor, items)

\* Mutant of Page: the rows are returned without the slice to limit
PageNoSlice(q, docs) ==
  LET hasMore == Len(docs) > q.limit
      items == docs
      nextCursor ==
        IF hasMore /\ Len(items) > 0
        THEN [cursorTs |-> toISOString(items[Len(items)].timestamp),
              cursorId |-> ToHexString(items[Len(items)]._id)]
        ELSE NullCursor
  IN Reply(200, "", TRUE, q, nextCursor, items)

\* Mutant of Page: a full page gets a cursor, whether or not a row follows
PageNoLookahead(q, docs) ==
  LET hasMore == Len(docs) >= q.limit
      items == IF Len(docs) > q.limit THEN SubSeq(docs, 1, q.limit) ELSE docs
      nextCursor ==
        IF hasMore /\ Len(items) > 0
        THEN [cursorTs |-> toISOString(items[Len(items)].timestamp),
              cursorId |-> ToHexString(items[Len(items)]._id)]
        ELSE NullCursor
  IN Reply(200, "", TRUE, q, nextCursor, items)

\* The reply built from the rows the store returned (limit + 1 asked for)
Page(q, docs) ==
  LET hasMore == Len(docs) > q.limit
      items == IF hasMore THEN SubSeq(docs, 1, q.limit) ELSE docs
      nextCursor ==
        IF hasMore /\ Len(items) > 0
        THEN [cursorTs |-> toISOString(items[Len(items)].timestamp),
              cursorId |-> ToHexString(items[Len(items)]._id)]
        ELSE NullCursor
  IN Reply(200, "", TRUE, q, nextCursor, items)

\* Mutant of Handle: the cursor is validated after the store was queried
HandleQueryFirst(q, col, up) ==
  IF Truthy(q.from) /\ NewDate(q.from) = NaN
    THEN Reject(q, "Invalid 'from' timestamp")
  ELSE IF Truthy(q.to) /\ NewDate(q.to) = NaN
    THEN Reject(q, "Invalid 'to' timestamp")
  ELSE IF Truthy(q.from) /\ Truthy(q.to) /\ NewDate(q.from) > NewDate(q.to)
    THEN Reject(q, "'from' must be <= 'to'")
  ELSE IF ~up
    THEN Reply(500, "Internal server error", TRUE, q, NullCursor, << >>)
  ELSE IF (Truthy(q.cursorTs) \/ Truthy(q.cursorId))
          /\ (~Truthy(q.cursorTs) \/ ~Truthy(q.cursorId))
    THEN Reply(400, "Both cursorTs and cursorId are required together",
               TRUE, q, NullCursor, << >>)
  ELSE IF Truthy(q.cursorTs) /\ NewDate(q.cursorTs) = NaN
    THEN Reply(400, "Invalid 'cursorTs' timestamp", TRUE, q, NullCursor, << >>)
  ELSE IF Truthy(q.cursorId) /\ NewObjectId(q.cursorId) = NaN
    THEN Reply(400, "Invalid 'cursorId' ObjectId", TRUE, q, NullCursor, << >>)
  ELSE Page(q, Find(col, BuildFilter(q), q.includeDetections, q.limit + 1))

\* Mutant of Handle: the 500 reply carries the store's error message
HandleLeaksError(q, col, up) ==
  IF Truthy(q.from) /\ NewDate(q.from) = NaN
    THEN Reject(q, "Invalid 'from' timestamp")
  ELSE IF Truthy(q.to) /\ NewDate(q.to) = NaN
    THEN Reject(q, "Invalid 'to' timestamp")
  ELSE IF Truthy(q.from) /\ Truthy(q.to) /\ NewDate(q.from) > NewDate(q.to)
    THEN Reject(q, "'from' must be <= 'to'")
  ELSE IF (Truthy(q.cursorTs) \/ Truthy(q.cursorId))
          /\ (~Truthy(q.cursorTs) \/ ~Truthy(q.cursorId))
    THEN Reject(q, "Both cursorTs and cursorId are required together")
  ELSE IF Truthy(q.cursorTs) /\ NewDate(q.cursorTs) = NaN
    THEN Reject(q, "Invalid 'cursorTs' timestamp")
  ELSE IF Truthy(q.cursorId) /\ NewObjectId(q.cursorId) = NaN
    THEN Reject(q, "Invalid 'cursorId' ObjectId")
  ELSE IF ~up
    THEN Reply(500, "MongoNetworkError: connection closed", TRUE, q,
               NullCursor, << >>)
  ELSE Page(q, Find(col, BuildFilter(q), q.includeDetections, q.limit + 1))

\* The handler: q the parsed query string, col the collection's documents,
\* up whether the store answers the query (it throws otherwise)
Handle(q, col, up) ==
  IF Truthy(q.from) /\ NewDate(q.from) = NaN
    THEN Reject(q, "Invalid 'from' timestamp")
  ELSE IF Truthy(q.to) /\ NewDate(q.to) = NaN
    THEN Reject(q, "Invalid 'to' timestamp")
  ELSE IF Truthy(q.from) /\ Truthy(q.to) /\ NewDate(q.from) > NewDate(q.to)
    THEN Reject(q, "'from' must be <= 'to'")
  ELSE IF (Truthy(q.cursorTs) \/ Truthy(q.cursorId))
          /\ (~Truthy(q.cursorTs) \/ ~Truthy(q.cursorId))
    THEN Reject(q, "Both cursorTs and cursorId are required together")
  ELSE IF Truthy(q.cursorTs) /\ NewDate(q.cursorTs) = NaN
    THEN Reject(q, "Invalid 'cursorTs' timestamp")
  ELSE IF Truthy(q.cursorId) /\ NewObjectId(q.cursorId) = NaN
    THEN Reject(q, "Invalid 'cursorId' ObjectId")
  ELSE IF ~up
    THEN Reply(500, "Internal server error", TRUE, q, NullCursor, << >>)
  ELSE Page(q, Find(col, BuildFilter(q), q.includeDetections, q.limit + 1))

\* ------------------------------------------------------------ state
VARIABLES
  store,      \* the documents of the emissions collection
  req,        \* the last query request the handler received
  resp,       \* its reply
  chain,      \* the client's cursor chain: "idle", "open" or "done"
  visited,    \* the items of the chain's pages so far, in order
  snapshot,   \* the collection as it was at the chain's first request
  npages,     \* the number of requests of the chain so far
  pc,         \* the loader's main(): "idle", "pipeline", "finalFlush", "done",
              \*   "failed" (main().catch, exit 1), "crashed" (uncaught error)
  input,      \* the rows of the run's input file
  pos,        \* how many of them the parser has delivered as 'data'
  parser,     \* csvParser: "flowing", "paused" or "destroyed"
  batch,      \* the accumulation buffer
  inflight,   \* the bulk writes awaiting the store's answer
  inserted,   \* the run's counters
  skipped,
  summary,    \* the counters the DONE line reported
  result,     \* the store's report of the bulk write that completed last
  flushes,    \* how many bulk writes of the run have completed
  runs,       \* how many runs have been started
  seeded,     \* whether the run repeats the previous run's input on a store
              \*   that holds every valid row of it
  refused,    \* documents of the run the store refused for another reason
              \*   than a duplicate key
  indexes     \* the names of the collection's indexes

queryVars == << req, resp, chain, visited, snapshot, npages >>
loaderVars == << pc, input, pos, parser, batch, inflight, inserted, skipped,
                 summary, result, flushes, runs, seeded, refused, indexes >>
vars == << store, queryVars, loaderVars >>

\* The documents the loader stores: the paged equipment's at and below the
\* default floor, and another equipment's (an equipment belongs to one site)
DocKinds ==
  { [siteId |-> "s1", equipmentId |-> "e1", confidence |-> 75],
    [siteId |-> "s1", equipmentId |-> "e1", confidence |-> 50],
    [siteId |-> "s1", equipmentId |-> "e2", confidence |-> 75] }
ReqScopes == { << "s1", "e1" >> }

RawDates == {Undefined, EmptyStr, Garbage} \cup {toISOString(t) : t \in TsValues}
RawIds == {Undefined, EmptyStr, Garbage, ToHexString(16)}
ValidDates == {Undefined} \cup {toISOString(t) : t \in TsValues}

Request(scope, from, to, confidenceMin, limit, includeDetections, cursorTs, cursorId) ==
  [siteId |-> scope[1], equipmentId |-> scope[2], from |-> from, to |-> to,
   confidenceMin |-> confidenceMin, limit |-> limit,
   includeDetections |-> includeDetections,
   cursorTs |-> cursorTs, cursorId |-> cursorId]

NoRequest ==
  Request(<< "", "" >>, Undefined, Undefined, 0, 0, FALSE, Undefined, Undefined)
NoReply == Reply(0, "", FALSE, NoRequest, NullCursor, << >>)

\* Every query string the schema lets through to the handler
AnyRequests ==
  { Request(sc, f, t, c, l, inc, cts, cid) :
      sc \in ReqScopes, f \in RawDates, t \in RawDates, c \in ConfMins,
      l \in Limits, inc \in BOOLEAN, cts \in RawDates, cid \in RawIds }

\* The first request of a chain: a valid window and no cursor
FirstRequests ==
  { Request(sc, f, t, c, l, inc, Undefined, Undefined) :
      sc \in ReqScopes, f \in ValidDates, t \in ValidDates, c \in ConfMins,
      l \in Limits, inc \in BOOLEAN }


\* ------------------------------------------------- seed-emissions: helpers
\* The value of a string of decimal digits
RECURSIVE DigitsValue(_)
DigitsValue(v) ==
  IF v = << >> THEN 0
  ELSE DigitsValue(SubSeq(v, 1, Len(v) - 1)) * 10 + v[Len(v)]

\* The digits a string begins with
RECURSIVE LeadingDigits(_)
LeadingDigits(v) ==
  IF v = << >> \/ v[1] \notin 0 .. 9 THEN << >>
  ELSE << v[1] >> \o LeadingDigits(Tail(v))

\* Number(v): the empty string is 0, digits are their value, other text NaN
Number(v) ==
  IF v = EmptyStr THEN 0
  ELSE IF \A i \in 1 .. Len(v) : v[i] \in 0 .. 9
    THEN DigitsValue(v)
  ELSE NaN

\* Number.parseInt(v, 10): the leading digits, NaN when there are none
parseInt(v) ==
  IF LeadingDigits(v) = << >> THEN NaN ELSE DigitsValue(LeadingDigits(v))

\* toNumber, toInt, toDate: NaN stands for the Error they throw
toNumber(v) == Number(v)
toInt(v) == parseInt(v)
toDate(v) == NewDate(v)

\* The values JSON.parse returns: a number, or an array of values
JsonNumber(n) == [isArray |-> FALSE, number |-> n, items |-> << >>]
JsonArray(items) == [isArray |-> TRUE, number |-> 0, items |-> items]

\* A JSON number: digits, with no leading zero before another digit
IsJsonNumber(v) ==
  /\ Len(v) >= 1 /\ \A i \in 1 .. Len(v) : v[i] \in 0 .. 9
  /\ Len(v) = 1 \/ v[1] # 0

\* JSON.parse(v) does not throw.  Of the characters of the model JSON text is
\* a number, "[]", or "[" (91) a JSON text "]" (93); an array need not hold
\* numbers and the text need not be an array
RECURSIVE IsJson(_)
IsJson(v) ==
  \/ IsJsonNumber(v)
  \/ /\ Len(v) >= 2 /\ v[1] = 91 /\ v[Len(v)] = 93
     /\ Len(v) = 2 \/ IsJson(SubSeq(v, 2, Len(v) - 1))

\* JSON.parse(v) of a JSON text
RECURSIVE JsonParse(_)
JsonParse(v) ==
  IF IsJsonNumber(v) THEN JsonNumber(DigitsValue(v))
  ELSE IF Len(v) = 2 THEN JsonArray(<< >>)
  ELSE JsonArray(<< JsonParse(SubSeq(v, 2, Len(v) - 1)) >>)

\* Mutant of safeJsonParse: a malformed payload becomes a value that is not []
safeJsonParseNoFallback(v) ==
  IF IsJson(v) THEN JsonParse(v) ELSE JsonArray(<< JsonNumber(0) >>)

\* safeJsonParse: whatever JSON.parse returns, [] when it throws
safeJsonParse(v) == IF IsJson(v) THEN JsonParse(v) ELSE JsonArray(<< >>)

\* mapRow throws when one of its conversions throws
mapRowThrows(row) ==
  \/ toDate(row.timestamp) = NaN
  \/ toNumber(row.mass) = NaN
  \/ toInt(row.scanDuration) = NaN
  \/ toNumber(row.confidence) = NaN
  \/ toInt(row.numDetections) = NaN

mapRow(row) ==
  [id |-> row.id, timestamp |-> toDate(row.timestamp), siteId |-> row.siteId,
   equipmentId |-> row.equipmentId, mass |-> toNumber(row.mass),
   scanDuration |-> toInt(row.scanDuration),
   confidence |-> toNumber(row.confidence),
   numDetections |-> toInt(row.numDetections),
   detections |-> safeJsonParse(row.detections)]

\* Mutant of IndexNames: the unique index on id is not declared
IndexNamesNoUnique == {"by_scope_time", "by_site_time"}

\* The three indexes ensureIndexes declares
IndexNames == {"by_id", "by_scope_time", "by_site_time"}

\* ------------------------------------------------ the store's bulk insert
\* insertMany(docs, { ordered: false }) on collection col; others are the
\* positions the store refuses for a reason other than a duplicate key.  Every
\* document is attempted; one is stored under a fresh _id unless it is refused
\* or the unique index by_id already holds its natural id.
RECURSIVE InsertMany(_, _, _, _)
InsertMany(col, docs, others, unique) ==
  IF docs = << >>
  THEN [col |-> col, nInserted |-> 0, dupes |-> 0, others |-> 0]
  ELSE
    LET d == Head(docs)
        i == Len(docs)
        isRefused == i \in others
        dup == ~isRefused /\ unique /\ \E e \in col : e.id = d.id
        stored == [_id |-> 15 + Cardinality(col)] @@ d
        now == IF isRefused \/ dup THEN col ELSE col \cup {stored}
        rest == InsertMany(now, Tail(docs), others, unique)
    IN [col |-> rest.col,
        nInserted |-> rest.nInserted + (IF isRefused \/ dup THEN 0 ELSE 1),
        dupes |-> rest.dupes + (IF dup THEN 1 ELSE 0),
        others |-> rest.others + (IF isRefused THEN 1 ELSE 0)]

\* ----------------------------------------------------- seed-emissions: main
NoResult == [n |-> 0, nInserted |-> 0, dupes |-> 0, others |-> 0,
             fatal |-> FALSE, final |-> FALSE]
NoSummary == [inserted |-> -1, skipped |-> -1]

LoaderIdle ==
  /\ pc = "idle"
  /\ input = << >>
  /\ pos = 0
  /\ parser = "flowing"
  /\ batch = << >>
  /\ inflight = {}
  /\ inserted = 0
  /\ skipped = 0
  /\ summary = NoSummary
  /\ result = NoResult
  /\ flushes = 0
  /\ runs = 0
  /\ seeded = FALSE
  /\ refused = 0
  /\ indexes = {}

\* The natural ids the input files carry
NatIds == {1, 2}

\* The rows of the input files: well-formed rows, and a row whose timestamp
\* does not parse
GoodRow(k) ==
  [id |-> k, timestamp |-> toISOString(1000), siteId |-> "s1",
   equipmentId |-> "e1", mass |-> << 1, 2 >>, scanDuration |-> << 1, 0 >>,
   confidence |-> << 7, 5 >>, numDetections |-> << 2 >>,
   detections |-> << 91, 1, 93 >>]
BadRow == [GoodRow(1) EXCEPT !.timestamp = Garbage]
Rows == {GoodRow(k) : k \in NatIds} \cup {BadRow}

RECURSIVE SeqsUpTo(_, _)
SeqsUpTo(S, n) ==
  IF n = 0 THEN {<< >>}
  ELSE LET shorter == SeqsUpTo(S, n - 1)
       IN shorter \cup {Append(q, x) : q \in shorter, x \in S}

Inputs == SeqsUpTo(Rows, MaxRows) \ {<< >>}

\* The process has ended: exit(1), an uncaught error, or nothing left to do
\* after the DONE line
Exited ==
  \/ pc \in {"failed", "crashed"}
  \/ pc = "done" /\ inflight = {} /\ (pos = Len(input) \/ parser = "destroyed")

\* main() up to the pipeline: connect, ensureIndexes, fresh counters.  The
\* loader is run, and run once more when the first process has ended.
StartRun ==
  /\ pc = "idle" \/ Exited
  /\ runs < 2
  /\ \E rows \in Inputs :
       /\ input' = rows
       /\ seeded' = /\ runs >= 1 /\ rows = input
                     /\ \A i \in 1 .. Len(rows) :
                          ~mapRowThrows(rows[i]) => \E e \in store : e.id = rows[i].id
  /\ indexes' = indexes \cup IndexNames
  /\ pc' = "pipeline"
  /\ pos' = 0
  /\ parser' = "flowing"
  /\ batch' = << >>
  /\ inflight' = {}
  /\ inserted' = 0
  /\ skipped' = 0
  /\ summary' = NoSummary
  /\ result' = NoResult
  /\ flushes' = 0
  /\ runs' = runs + 1
  /\ refused' = 0
  /\ UNCHANGED << store, queryVars >>

\* Mutant of BatchFull: the flush starts one record late
BatchFullLate(b) == Len(b) > BATCH_SIZE

\* if (batch.length >= BATCH_SIZE), tested after the push
BatchFull(b) == Len(b) >= BATCH_SIZE

\* csvParser.on("data"): one row is delivered; a full batch pauses the parser
\* and starts flushBatch, which swaps the buffer out and calls insertMany
Data ==
  /\ pc \in {"pipeline", "finalFlush", "done"}
  /\ parser = "flowing"
  /\ pos < Len(input)
  /\ pos' = pos + 1
  /\ LET row == input[pos + 1] IN
       IF mapRowThrows(row)
       THEN /\ skipped' = skipped + 1
            /\ UNCHANGED << batch, parser, inflight >>
       ELSE /\ skipped' = skipped
            /\ IF BatchFull(Append(batch, mapRow(row)))
               THEN /\ parser' = "paused"
                    /\ batch' = << >>
                    /\ inflight' = inflight \cup
                         {[docs |-> Append(batch, mapRow(row)), final |-> FALSE]}
               ELSE /\ batch' = Append(batch, mapRow(row))
                    /\ UNCHANGED << parser, inflight >>
  /\ UNCHANGED << store, queryVars, pc, input, inserted, summary, result,
                  flushes, runs, seeded, refused, indexes >>

\* await pipeline(...) returns: the parser has taken in and parsed the whole
\* input (its writable side finished).  The rows it has not delivered yet,
\* because it is paused, stay in its buffer.  main goes on to the final
\* flushBatch: with an empty buffer that returns at once, the DONE line is
\* written and the client closed; otherwise the last insertMany starts.
PipelineResolve ==
  /\ pc = "pipeline"
  /\ parser = "flowing" => pos = Len(input)
  /\ parser # "destroyed"
  /\ IF batch = << >>
     THEN /\ pc' = "done"
          /\ summary' = [inserted |-> inserted, skipped |-> skipped]
          /\ UNCHANGED << batch, inflight >>
     ELSE /\ pc' = "finalFlush"
          /\ batch' = << >>
          /\ inflight' = inflight \cup {[docs |-> batch, final |-> TRUE]}
          /\ UNCHANGED summary
  /\ UNCHANGED << store, queryVars, input, pos, parser, inserted, skipped,
                  result, flushes, runs, seeded, refused, indexes >>

\* Mutant of Counted: the successes of a partial failure are not added
CountedDropsPartial(out) ==
  IF out.dupes + out.others = 0
  THEN [inserted |-> inserted + out.nInserted, skipped |-> skipped]
  ELSE [inserted |-> inserted, skipped |-> skipped + out.dupes]

\* flushBatch after insertMany settled without a fatal error: the result's
\* insertedCount, or the duplicates and the successes of a partial failure
Counted(out) ==
  IF out.dupes + out.others = 0
  THEN [inserted |-> inserted + out.nInserted, skipped |-> skipped]
  ELSE [inserted |-> inserted + out.nInserted, skipped |-> skipped + out.dupes]

\* Mutant of Resume: the parser is left as it is
ResumeNever(p) == p

\* csvParser.resume(): a paused parser flows again, a destroyed one stays so
Resume(p) == IF p = "paused" THEN "flowing" ELSE p

\* The store answers a bulk write: every document stored, or a bulk write
\* error listing the refused ones.  A write started by the data handler
\* resumes the parser; the final one lets main write DONE and close.
FlushDone ==
  /\ \E w \in inflight, others \in SUBSET (1 .. BATCH_SIZE) :
       /\ \A i \in others : i <= Len(w.docs)
       /\ LET out == InsertMany(store, w.docs, others, "by_id" \in indexes) IN
            /\ store' = out.col
            /\ inserted' = Counted(out).inserted
            /\ skipped' = Counted(out).skipped
            /\ result' = [n |-> Len(w.docs), nInserted |-> out.nInserted,
                          dupes |-> out.dupes, others |-> out.others,
                          fatal |-> FALSE, final |-> w.final]
            /\ inflight' = inflight \ {w}
            /\ refused' = refused + out.others
            /\ IF w.final
               THEN /\ pc' = "done"
                    /\ summary' = [inserted |-> Counted(out).inserted,
                                   skipped |-> Counted(out).skipped]
                    /\ UNCHANGED parser
               ELSE /\ parser' = Resume(parser)
                    /\ UNCHANGED << pc, summary >>
  /\ flushes' = flushes + 1
  /\ UNCHANGED << queryVars, input, pos, batch, runs, seeded, indexes >>

\* insertMany rejects with an error that carries no writeErrors: flushBatch
\* rethrows.  From the data handler the parser is destroyed with it, which
\* fails the pipeline while main still awaits it and is an uncaught error
\* afterwards; from the final flush main() rejects and the parser, which has
\* ended, is not touched.  Nothing was stored.
FlushFails ==
  /\ \E w \in inflight :
       /\ inflight' = {}
       /\ result' = [n |-> Len(w.docs), nInserted |-> 0, dupes |-> 0,
                     others |-> 0, fatal |-> TRUE, final |-> w.final]
       /\ pc' = IF w.final \/ pc = "pipeline" THEN "failed" ELSE "crashed"
       /\ parser' = IF w.final THEN parser ELSE "destroyed"
  /\ flushes' = flushes + 1
  /\ UNCHANGED << store, queryVars, input, pos, batch, inserted, skipped,
                  summary, runs, seeded, refused, indexes >>

\* Reading or decompressing the input fails while main awaits the pipeline,
\* be it after the last row was delivered (a damaged gzip trailer shows at the
\* end of the stream): the pipeline destroys the parser and rejects, main()
\* rejects and the process exits with status 1; the buffer is not written
SourceFails ==
  /\ pc = "pipeline"
  /\ pc' = "failed"
  /\ parser' = "destroyed"
  /\ inflight' = {}
  /\ UNCHANGED << store, queryVars, input, pos, batch, inserted, skipped,
                  summary, result, flushes, runs, seeded, refused, indexes >>

\* ------------------------------------------------------- the query side
InitQuery ==
  /\ store = {}
  /\ req = NoRequest
  /\ resp = NoReply
  /\ chain = "idle"
  /\ visited = << >>
  /\ snapshot = {}
  /\ npages = 0
  /\ LoaderIdle

\* A document as the loader stores it: a fresh identity, its natural id, and
\* the detections of its row
NewDoc(n, t, k) ==
  [_id |-> n, id |-> n, timestamp |-> t,
   siteId |-> k.siteId, equipmentId |-> k.equipmentId,
   confidence |-> k.confidence,
   detections |-> JsonArray(<< JsonNumber(n) >>)]

\* The loader's bulk write stores one more document, under an identity and a
\* natural id no stored document has
Insert ==
  /\ Cardinality(store) < MaxDocs
  /\ \E n \in IdValues, t \in TsValues, k \in DocKinds :
       /\ \A d \in store : d._id # n
       /\ store' = store \cup {NewDoc(n, t, k)}
  /\ UNCHANGED << queryVars, loaderVars >>

\* The identities of the documents a single request is served from: the one
\* a cursor of RawIds names, one below it and one above it
SeedIds == {15, 16, 17}

\* The collection is seeded before the single request is served: any
\* documents, under any of these identities, stored in any order
Seed ==
  /\ req = NoRequest
  /\ Cardinality(store) < MaxQueryDocs
  /\ \E n \in SeedIds, t \in TsValues, k \in DocKinds :
       /\ \A d \in store : d._id # n
       /\ store' = store \cup {NewDoc(n, t, k)}
  /\ UNCHANGED << queryVars, loaderVars >>

\* One request, with or without a cursor of the caller's making.  The handler
\* keeps no state between requests, so one request is served per behaviour.
Query ==
  /\ req = NoRequest
  /\ \E q \in AnyRequests, up \in BOOLEAN :
       /\ req' = q
       /\ resp' = Handle(q, store, up)
  /\ snapshot' = store
  /\ UNCHANGED << store, chain, visited, npages, loaderVars >>

\* The chain's first request
FirstPage ==
  /\ chain = "idle"
  /\ \E q \in FirstRequests :
       /\ req' = q
       /\ resp' = Handle(q, store, TRUE)
  /\ chain' = IF resp'.nextCursor = NullCursor THEN "done" ELSE "open"
  /\ visited' = resp'.items
  /\ snapshot' = store
  /\ npages' = 1
  /\ UNCHANGED << store, loaderVars >>

\* The same request again, seeded with the previous reply's nextCursor
NextPage ==
  /\ chain = "open"
  /\ req' = [req EXCEPT !.cursorTs = resp.nextCursor.cursorTs,
                        !.cursorId = resp.nextCursor.cursorId]
  /\ resp' = Handle(req', store, TRUE)
  /\ chain' = IF resp'.status = 200 /\ resp'.nextCursor # NullCursor
              THEN "open" ELSE "done"
  /\ visited' = visited \o resp'.items
  /\ npages' = npages + 1
  /\ UNCHANGED << store, snapshot, loaderVars >>

NextQuery == Seed \/ Query
SpecQuery == InitQuery /\ [][NextQuery]_vars

InitLoader == InitQuery
NextLoader ==
  StartRun \/ Data \/ PipelineResolve \/ FlushDone \/ FlushFails \/ SourceFails
SpecLoader == InitLoader /\ [][NextLoader]_vars

\* The loader with its scheduling: a flowing parser delivers its next row, the
\* pipeline's promise settles once the input has been consumed, and the store
\* answers every bulk write, with a result or with an error
FairLoader ==
  /\ WF_vars(Data)
  /\ WF_vars(PipelineResolve)
  /\ WF_vars(FlushDone \/ FlushFails)
\* One run of the loader, from an empty collection
StartOnce == runs = 0 /\ StartRun
NextLoaderOnce ==
  StartOnce \/ Data \/ PipelineResolve \/ FlushDone \/ FlushFails \/ SourceFails
SpecLoaderLive == InitLoader /\ [][NextLoaderOnce]_vars /\ FairLoader

NextPaging == Insert \/ FirstPage \/ NextPage
SpecPaging == InitQuery /\ [][NextPaging]_vars

\* ------------------------------------------- the data handler, row by row
\* The text a CSV column can hold: well-formed, not of the column's type,
\* empty, and (for the integer columns) digits followed by other characters
RawTimestamps == {toISOString(1000), Garbage, EmptyStr}
RawNumbers == {<< 7, 5 >>, Garbage, EmptyStr}
RawInts == {<< 2 >>, Garbage, << 2, 99 >>, EmptyStr}
RawDetections ==
  {<< 91, 1, 93 >>, << 91, 93 >>, << 2 >>, << 91, 0, 1, 93 >>, Garbage, EmptyStr}

AnyRows ==
  { [GoodRow(3) EXCEPT !.timestamp = t, !.mass = m, !.scanDuration = sd,
                       !.confidence = c, !.numDetections = nd,
                       !.detections = det] :
      t \in RawTimestamps, m \in RawNumbers, sd \in RawInts,
      c \in RawNumbers, nd \in RawInts, det \in RawDetections }

\* main() up to the pipeline, on an input whose second row is any row
StartRows ==
  /\ pc = "idle"
  /\ \E r \in AnyRows : input' = << GoodRow(1), r, GoodRow(2) >>
  /\ seeded' = FALSE
  /\ indexes' = indexes \cup IndexNames
  /\ pc' = "pipeline"
  /\ pos' = 0
  /\ parser' = "flowing"
  /\ batch' = << >>
  /\ inflight' = {}
  /\ inserted' = 0
  /\ skipped' = 0
  /\ summary' = NoSummary
  /\ result' = NoResult
  /\ flushes' = 0
  /\ runs' = runs + 1
  /\ refused' = 0
  /\ UNCHANGED << store, queryVars >>

InitRows == InitQuery
NextRows ==
  StartRows \/ Data \/ PipelineResolve \/ FlushDone \/ FlushFails \/ SourceFails
SpecRows == InitRows /\ [][NextRows]_vars

\* ================================================================ claims
\* The base predicate of a request, as the specification states it
BaseMatch(d, q) ==
  /\ d.siteId = q.siteId /\ d.equipmentId = q.equipmentId
  /\ d.confidence >= q.confidenceMin
  /\ NewDate(q.from) # NaN => d.timestamp >= NewDate(q.from)
  /\ NewDate(q.to) # NaN => d.timestamp <= NewDate(q.to)

\* d sorts strictly after the position (ts, oid)
After(d, ts, oid) == d.timestamp < ts \/ (d.timestamp = ts /\ d._id < oid)

HasCursor(q) == NewDate(q.cursorTs) # NaN /\ NewObjectId(q.cursorId) # NaN

WindowOk(q) == NewDate(q.from) = NaN \/ NewDate(q.to) = NaN
               \/ NewDate(q.from) <= NewDate(q.to)

Items(seq) == {seq[i] : i \in 1 .. Len(seq)}
IsPrefix(s, t) == Len(s) <= Len(t) /\ \A i \in 1 .. Len(s) : s[i] = t[i]

\* A stored document as the replies to the current request show it
Shown(d) == Project(d, req.includeDetections)

\* One unlimited, cursor-less query with the chain's scope, window and floor
Unlimited(q, col) ==
  Find(col, BuildFilter([q EXCEPT !.cursorTs = Undefined, !.cursorId = Undefined]),
       q.includeDetections,
       Cardinality(col))

\* C1: over a fixed dataset the pages of a cursor chain, concatenated, are a
\* prefix of the result of one unlimited query sorted by (timestamp desc,
\* _id desc), and when the chain has ended (nextCursor null) they are the
\* whole of it: every matching record exactly once, in the global order.
C1_PagingVisitsAllOnce ==
  (chain # "idle" /\ store = snapshot /\ WindowOk(req)) =>
    /\ resp.status = 200
    /\ IsPrefix(visited, Unlimited(req, store))
    /\ chain = "done" =>
         /\ resp.nextCursor = NullCursor
         /\ visited = Unlimited(req, store)
         /\ Items(visited) = {Shown(d) : d \in {e \in store : BaseMatch(e, req)}}

\* A chain of three pages over records that share one timestamp has ended
C1_Witness ==
  /\ chain = "done" /\ store = snapshot /\ npages = 3 /\ Len(visited) = 3
  /\ \A i \in 1 .. 3 : visited[i].timestamp = visited[1].timestamp

\* C2: with records inserted between the page requests of a chain (none
\* deleted), no record is returned on two pages, and when the chain has ended
\* every matching record stored before its first request has been returned.
C2_StableUnderInserts ==
  chain # "idle" =>
    /\ \A i, j \in 1 .. Len(visited) : visited[i]._id = visited[j]._id => i = j
    /\ (chain = "done" /\ resp.status = 200) =>
         \A d \in snapshot : BaseMatch(d, req) => Shown(d) \in Items(visited)

\* A chain of two pages has ended; its first page held a record stored
\* before the chain began, a later page one inserted while it ran
C2_Witness ==
  /\ chain = "done" /\ npages >= 2
  /\ \E d \in store \ snapshot : Shown(d) \in Items(visited)
  /\ \E d \in snapshot : Shown(d) = visited[1]

\* C3: the items of a successful reply are sorted by (timestamp desc, _id
\* desc), lie in the requested scope, have confidence >= confidenceMin, lie
\* in the window [from, to] where given, and sort strictly after the cursor
\* where one is given.
C3_ItemsSortedAndFiltered ==
  (req # NoRequest /\ resp.status = 200) =>
    /\ \A i, j \in 1 .. Len(resp.items) :
         i < j => Before(resp.items[i], resp.items[j])
    /\ \A i \in 1 .. Len(resp.items) :
         LET d == resp.items[i] IN
         /\ d.siteId = req.siteId /\ d.equipmentId = req.equipmentId
         /\ d.confidence >= req.confidenceMin
         /\ NewDate(req.from) # NaN => NewDate(req.from) <= d.timestamp
         /\ NewDate(req.to) # NaN => d.timestamp <= NewDate(req.to)
         /\ HasCursor(req) =>
              After(d, NewDate(req.cursorTs), NewObjectId(req.cursorId))

\* Two items returned for a request with a window and a cursor, while the
\* collection also holds a record the filter excludes
C3_Witness ==
  /\ req # NoRequest /\ resp.status = 200 /\ Len(resp.items) = 2
  /\ HasCursor(req) /\ NewDate(req.from) # NaN /\ NewDate(req.to) # NaN
  /\ resp.items[1].timestamp = resp.items[2].timestamp

\* The matching records that sort after the last item of a reply
Remaining(q, r, col) ==
  { d \in col :
      /\ BaseMatch(d, q)
      /\ HasCursor(q) => After(d, NewDate(q.cursorTs), NewObjectId(q.cursorId))
      /\ Len(r.items) > 0 => Before(r.items[Len(r.items)], d) }

NextCursorRight(q, r, col) ==
  /\ (r.nextCursor = NullCursor) <=> (Remaining(q, r, col) = {})
  /\ r.nextCursor # NullCursor =>
       /\ Len(r.items) > 0
       /\ NewDate(r.nextCursor.cursorTs) = r.items[Len(r.items)].timestamp
       /\ NewObjectId(r.nextCursor.cursorId) = r.items[Len(r.items)]._id

\* C4: in every successful reply nextCursor is null exactly when no matching
\* record sorted after the last returned item when the query ran, and is
\* otherwise the (timestamp, _id) of the last returned item; with limit 2 and
\* 3 matching records the first page has 2 items and a cursor, the second
\* page the remaining one and a null cursor.
C4_NextCursor ==
  /\ [][(npages' # npages /\ resp'.status = 200) =>
          NextCursorRight(req', resp', store)]_vars
  /\ [](( /\ chain # "idle" /\ store = snapshot /\ req.limit = 2
          /\ Cardinality({d \in store : BaseMatch(d, req)}) = 3) =>
          /\ npages = 1 => (resp.count = 2 /\ resp.nextCursor # NullCursor)
          /\ npages = 2 => (resp.count = 1 /\ resp.nextCursor = NullCursor)
          /\ npages <= 2)

\* The second page of a limit-2 chain over 3 matching records
C4_Witness ==
  /\ chain = "done" /\ store = snapshot /\ req.limit = 2 /\ npages = 2
  /\ Cardinality({d \in store : BaseMatch(d, req)}) = 3
  /\ resp.count = 1 /\ resp.nextCursor = NullCursor

\* C5: in every successful reply count = length(items) <= limit, and the
\* items are the first rows of the result: the lookahead row is not among
\* them.
C5_CountWithinLimit ==
  (req # NoRequest /\ resp.status = 200) =>
    /\ resp.count = Len(resp.items)
    /\ Len(resp.items) <= req.limit
    /\ resp.nextCursor # NullCursor =>
         /\ Len(resp.items) = req.limit
         /\ Remaining(req, resp, snapshot) # {}
         /\ \A d \in Remaining(req, resp, snapshot) : Shown(d) \notin Items(resp.items)

\* More records match than the limit allows: the page is full and a
\* lookahead row existed
C5_Witness ==
  /\ req # NoRequest /\ resp.status = 200 /\ req.limit = 1
  /\ resp.count = 1 /\ resp.nextCursor # NullCursor

\* C6: a request answered with a validation error issued no store query.
C6_NoQueryOnInvalid ==
  (req # NoRequest /\ resp.status = 400) => ~resp.queried

\* The last of the validations failed: a malformed cursorId after a valid
\* window and a valid cursorTs
C6_Witness ==
  /\ req # NoRequest /\ resp.status = 400
  /\ resp.error = "Invalid 'cursorId' ObjectId"
  /\ NewDate(req.from) # NaN /\ snapshot # {}

\* C7: a request (otherwise valid) in which exactly one of cursorTs and
\* cursorId is supplied, whatever its value, is answered 400 "Both cursorTs
\* and cursorId are required together" and returns no page.
C7_CursorBothOrNeither ==
  ( /\ req # NoRequest
    /\ (req.cursorTs = Undefined) # (req.cursorId = Undefined)
    /\ ~(Truthy(req.from) /\ NewDate(req.from) = NaN)
    /\ ~(Truthy(req.to) /\ NewDate(req.to) = NaN)
    /\ WindowOk(req) ) =>
    /\ resp.status = 400
    /\ resp.error = "Both cursorTs and cursorId are required together"
    /\ resp.items = << >>

\* C8: a run that repeats the previous run's input on a store that already
\* holds every valid row of it reports insertedCount = 0 and counts every row
\* of the input as skipped, and after any number of runs the store holds at
\* most one record per natural id.
C8_LoaderIdempotent ==
  /\ \A d, e \in store : d.id = e.id => d = e
  /\ (pc = "done" /\ seeded /\ refused = 0) =>
       /\ summary.inserted = 0
       /\ summary.skipped = Len(input)

\* C9: when a run that reported completion has ended, inserted + skipped
\* (duplicates and other skips) equals the number of rows the parser
\* delivered.
C9_Accounting ==
  (pc = "done" /\ Exited) => inserted + skipped = pos

\* C10: a bulk write of n records that meets duplicate-key failures on k of
\* them (and no other failure) stores the other n - k, adds n - k to inserted
\* and k to skipped, does not fail the run, and ingestion goes on: the parser
\* flows again, or after the final flush the run completes.
C10_PartialFailureFlush ==
  [][(flushes' = flushes + 1 /\ ~result'.fatal /\ result'.others = 0) =>
       /\ result'.nInserted = result'.n - result'.dupes
       /\ Cardinality(store') = Cardinality(store) + result'.n - result'.dupes
       /\ inserted' = inserted + result'.n - result'.dupes
       /\ skipped' = skipped + result'.dupes
       /\ pc' \notin {"failed", "crashed"}
       /\ parser' # "destroyed"
       /\ ~result'.final => parser' = "flowing"
       /\ result'.final => pc' = "done"]_vars

\* A write of two records met one duplicate: one was stored, and rows are
\* being delivered again
C10_Witness ==
  /\ flushes >= 1 /\ result.n = 2 /\ result.dupes = 1 /\ result.others = 0
  /\ ~result.fatal /\ ~result.final
  /\ inserted >= 1 /\ skipped >= 1 /\ parser = "flowing" /\ pos < Len(input)

\* C11: once a bulk write has failed for a reason other than a duplicate key
\* (the whole call rejected, or a per-record write error with another code
\* inside a partial-failure result), the run is in the error outcome: the
\* parser is torn down (unless it had ended: the final flush), the process
\* ends with a non-zero status, and no completion has been reported.
C11_NonDuplicateFatal ==
  (flushes >= 1 /\ (result.fatal \/ refused > 0)) =>
    /\ pc \in {"failed", "crashed"}
    /\ ~result.final => parser = "destroyed"
    /\ summary = NoSummary

\* C12: at most one bulk write is in flight at any moment (the final flush
\* included), no row is delivered while a write is in flight, and a paused
\* parser flows again only in the step in which the write completes with no
\* failure other than duplicate keys.
C12_Backpressure ==
  /\ [](Cardinality(inflight) <= 1)
  /\ [][pos' = pos + 1 => inflight = {}]_vars
  /\ [][(runs' = runs /\ parser = "paused" /\ parser' = "flowing") =>
          (flushes' = flushes + 1 /\ ~result'.fatal /\ result'.others = 0)]_vars

\* Text that is a number (an integer) of the columns' format
IsDigits(v) == v # EmptyStr /\ \A i \in 1 .. Len(v) : v[i] \in 0 .. 9

\* One of the five typed columns of a row cannot be parsed
RowUnparsable(row) ==
  \/ ~IsDigits(row.mass)
  \/ ~IsDigits(row.confidence)
  \/ ~IsDigits(row.scanDuration)
  \/ ~IsDigits(row.numDetections)
  \/ NewDate(row.timestamp) = NaN

\* C13: the delivery of a row whose mass, confidence, scanDuration,
\* numDetections or timestamp is unparsable adds one to the skip counter, adds
\* nothing to the buffer or to a bulk write, and leaves the run going: the
\* parser is not torn down and the run is not aborted.
C13_RowErrorsSkipped ==
  [][(pos' = pos + 1 /\ RowUnparsable(input[pos + 1])) =>
       /\ skipped' = skipped + 1
       /\ batch' = batch
       /\ inflight' = inflight
       /\ parser' = parser
       /\ pc' = pc]_vars

\* C14: the delivery of a row whose typed columns are valid never fails on
\* its detections: nothing is skipped, the record joins the batch (the buffer,
\* or the bulk write the full buffer is handed to), and its detections are
\* the parsed payload, or the empty sequence when the payload is malformed.
C14_DetectionsNeverFail ==
  [][(pos' = pos + 1 /\ ~RowUnparsable(input[pos + 1])) =>
       /\ skipped' = skipped
       /\ batch' # << >> \/ inflight' # inflight
       /\ LET row == input[pos + 1]
              docs == IF batch' # << >> THEN batch'
                      ELSE (CHOOSE w \in inflight' \ inflight : TRUE).docs
              rec == docs[Len(docs)]
          IN /\ Len(docs) = Len(batch) + 1
             /\ rec.id = row.id
             /\ rec.detections =
                  IF IsJson(row.detections)
                  THEN JsonParse(row.detections)
                  ELSE JsonArray(<< >>)]_vars

\* A row with valid typed columns and a payload that is no JSON was stored
\* with empty detections
C14_Witness ==
  /\ pc = "done" /\ Len(input) = 3 /\ ~RowUnparsable(input[2])
  /\ input[2].detections = Garbage
  /\ \E d \in store : d.id = input[2].id /\ d.detections = JsonArray(<< >>)

\* A parameter the query string carries, whatever its value
Supplied(v) == v # Undefined

\* C15: a request in which a supplied from, to or cursorTs does not parse, or
\* a supplied cursorId is no valid identity, is answered 400; unless the
\* cursor is partial, the message names a field that is at fault (or the
\* window, when that is at fault too); and a request whose from and to both
\* parse, with from > to, is answered 400 "'from' must be <= 'to'".
C15_FieldValidation ==
  req # NoRequest =>
    LET badFrom == Supplied(req.from) /\ NewDate(req.from) = NaN
        badTo == Supplied(req.to) /\ NewDate(req.to) = NaN
        badTs == Supplied(req.cursorTs) /\ NewDate(req.cursorTs) = NaN
        badId == Supplied(req.cursorId) /\ NewObjectId(req.cursorId) = NaN
        partial == Supplied(req.cursorTs) # Supplied(req.cursorId)
        fromAfterTo == /\ Supplied(req.from) /\ Supplied(req.to)
                       /\ ~badFrom /\ ~badTo
                       /\ NewDate(req.from) > NewDate(req.to)
    IN /\ (badFrom \/ badTo \/ badTs \/ badId) =>
            /\ resp.status = 400
            /\ ~partial =>
                 \/ badFrom /\ resp.error = "Invalid 'from' timestamp"
                 \/ badTo /\ resp.error = "Invalid 'to' timestamp"
                 \/ badTs /\ resp.error = "Invalid 'cursorTs' timestamp"
                 \/ badId /\ resp.error = "Invalid 'cursorId' ObjectId"
                 \/ fromAfterTo /\ resp.error = "'from' must be <= 'to'"
       /\ fromAfterTo =>
            /\ resp.status = 400
            /\ resp.error = "'from' must be <= 'to'"

\* The handler rejects nothing of the request (whatever the store holds)
PassesValidation(q) == Handle(q, {}, TRUE).status = 200

\* C16: every request the handler serves gets a reply (the handler raises
\* nothing); one that passes validation is answered 200, or, when the store
\* query fails, 500 with the generic message and nothing else: no item, no
\* cursor, no scope, no text of the underlying error.
C16_GenericServerError ==
  [][req' # req =>
       /\ resp'.status \in {200, 400, 500}
       /\ PassesValidation(req') => resp'.status \in {200, 500}
       /\ resp'.status = 500 =>
            /\ PassesValidation(req')
            /\ resp' = [status |-> 500, error |-> "Internal server error",
                        queried |-> TRUE, count |-> 0, siteId |-> "",
                        equipmentId |-> "", nextCursor |-> NullCursor,
                        items |-> << >>]]_vars

\* The store failed on a request with a window and a cursor, over a
\* collection that holds documents
C16_Witness ==
  /\ req # NoRequest /\ resp.status = 500 /\ snapshot # {}
  /\ HasCursor(req) /\ NewDate(req.from) # NaN

\* C17: when a run has reported completion (DONE), no bulk write is in
\* flight, the accumulation buffer is empty and the parser has delivered
\* every row of the input: everything that normalized was flushed before.
C17_EndOfInput ==
  pc = "done" =>
    /\ inflight = {}
    /\ batch = << >>
    /\ pos = Len(input)

\* The records of a set of bulk writes
RECURSIVE InFlightDocs(_)
InFlightDocs(W) ==
  IF W = {} THEN 0
  ELSE LET w == CHOOSE x \in W : TRUE
       IN Len(w.docs) + InFlightDocs(W \ {w})

\* C18: the records resident in the loader, buffer plus in-flight batch, are
\* never more than B; the buffer is handed to a flush when it reaches B, so
\* between steps it holds fewer than B, and a batch in flight holds at most B.
C18_BoundedBuffer ==
  /\ Len(batch) + InFlightDocs(inflight) <= BATCH_SIZE
  /\ Len(batch) < BATCH_SIZE
  /\ \A w \in inflight : ~w.final => Len(w.docs) = BATCH_SIZE

\* A full batch is in flight, the buffer is empty, the parser is paused and
\* rows are still waiting
C18_Witness ==
  /\ pc = "pipeline" /\ parser = "paused" /\ batch = << >>
  /\ InFlightDocs(inflight) = BATCH_SIZE /\ pos < Len(input)

\* C19: once a run has ended in a fatal error (a flush failed fatally, or
\* reading or decompressing the source failed), it has reported no successful
\* completion, the parser is torn down or has delivered its last row, and no
\* bulk write is in flight; and from then on the run accepts no row and
\* issues no bulk write.
C19_Teardown ==
  /\ [](pc \in {"failed", "crashed"} =>
          /\ summary = NoSummary
          /\ parser = "destroyed" \/ pos = Len(input)
          /\ inflight = {})
  /\ [][(pc \in {"failed", "crashed"} /\ runs' = runs) =>
          /\ pos' = pos /\ batch' = batch /\ inflight' = inflight
          /\ store' = store /\ pc' = pc]_vars

\* C20: in every run the three indexes exist before the first row is read,
\* so every bulk write is issued with the unique index on id in place and the
\* store never holds two records with one natural id; a run that finds the
\* indexes in place leaves them as they are.
C20_IndexesBeforeWrites ==
  /\ [](pc # "idle" => indexes = IndexNames)
  /\ [](inflight # {} => "by_id" \in indexes)
  /\ [](\A d, e \in store : d.id = e.id => d = e)
  /\ [][(runs' = runs + 1 /\ IndexNames \subseteq indexes) =>
          indexes' = indexes]_vars

\* A bulk write of the second run, issued with the indexes of the first run
\* in place, met a duplicate of a record the first run stored
C20_Witness ==
  /\ runs = 2 /\ flushes >= 1 /\ result.dupes >= 1 /\ indexes = IndexNames
  /\ store # {}

\* C21: every run that has started eventually reaches a terminal state (the
\* DONE summary, or a fatal error), and a paused parser is eventually resumed
\* or destroyed, given that every bulk write is eventually answered.
C21_LoaderTerminates ==
  /\ (pc = "pipeline") ~> (pc \in {"done", "failed", "crashed"})
  /\ (parser = "paused") ~> (parser \in {"flowing", "destroyed"})

\* A run of three rows completed after its parser was paused for a bulk
\* write and resumed
C21_Witness ==
  /\ pc = "done" /\ Len(input) = 3 /\ pos = 3 /\ flushes = 2
  /\ parser = "flowing" /\ inflight = {} /\ result.final

\* The number of requests a chain over n matching records takes
PagesFor(n, limit) ==
  IF n = 0 THEN 1 ELSE (n + limit - 1) \div limit

\* C22: over a fixed dataset every request made with a returned nextCursor
\* returns at least one item, and a chain over N matching records ends after
\* exactly max(1, ceil(N / limit)) requests.
C22_PaginationProgress ==
  (chain # "idle" /\ store = snapshot /\ WindowOk(req)) =>
    LET n == Cardinality({d \in store : BaseMatch(d, req)}) IN
    /\ npages >= 2 => Len(resp.items) >= 1
    /\ npages <= PagesFor(n, req.limit)
    /\ chain = "done" => npages = PagesFor(n, req.limit)

\* A chain over two matching records with limit 1 has ended with its second
\* request, in a collection that holds a record outside the scope as well
C22_Witness ==
  /\ chain = "done" /\ store = snapshot /\ req.limit = 1 /\ npages = 2
  /\ Cardinality({d \in store : BaseMatch(d, req)}) = 2
  /\ Cardinality(store) = 3 /\ Len(resp.items) = 1

====
